---- MODULE Spec2Model ----
(***************************************************************************)
(* Todo API (backend/main.py): the request handlers of the FastAPI app and *)
(* the two PostgreSQL tables they read and write.  Every SQL statement is  *)
(* one atomic step (each runs in its own implicit transaction); a handler  *)
(* that issues two statements (update_todo, get_notes, create_note) is two *)
(* steps, and other requests may run between them.                         *)
(***************************************************************************)
EXTENDS Integers, Sequences, FiniteSets, TLC

(* ---- bounds ---- *)
MaxTodos == 2
MaxNotes == 2
MaxTime == 1
MaxInFlight == 1

(* ---- values ---- *)
\* A Python Optional / SQL nullable value: None is <<>>, a value v is <<v>>.
None == <<>>
Some(v) == <<v>>

Titles == {"", "a"}
Descriptions == {"d"}
Contents == {"", "c"}

TodoIds == 1..MaxTodos
NoteIds == 1..MaxNotes
Procs == 1..MaxInFlight

\* JSON request bodies: keys is the set of members present in the object; a
\* member that is present may carry JSON null (None).
TodoCreateBodies ==
    { b \in [keys : SUBSET {"title", "description"},
             title : {None} \cup {Some(t) : t \in Titles},
             description : {None} \cup {Some(d) : d \in Descriptions}] :
        /\ "title" \notin b.keys => b.title = None
        /\ "description" \notin b.keys => b.description = None }

TodoUpdateBodies ==
    { b \in [keys : SUBSET {"title", "description", "completed"},
             title : {None} \cup {Some(t) : t \in Titles},
             description : {None} \cup {Some(d) : d \in Descriptions},
             completed : {None, Some(TRUE), Some(FALSE)}] :
        /\ "title" \notin b.keys => b.title = None
        /\ "description" \notin b.keys => b.description = None
        /\ "completed" \notin b.keys => b.completed = None }

NoteBodies ==
    { b \in [keys : SUBSET {"content"},
             content : {None} \cup {Some(c) : c \in Contents}] :
        "content" \notin b.keys => b.content = None }

VARIABLES
    todos,          \* table todos: id -> row
    notes,          \* table notes: id -> row
    todos_id_seq,   \* SERIAL sequence of todos.id: the next value
    notes_id_seq,   \* SERIAL sequence of notes.id: the next value
    now,            \* the database clock (CURRENT_TIMESTAMP)
    pending,        \* requests between their first and second statement
    last            \* the response of the request that completed last

vars == <<todos, notes, todos_id_seq, notes_id_seq, now, pending, last>>

Idle == [op |-> "idle"]

(* ---- pydantic models ---- *)
\* TodoCreate: title is a required str (any str, "" included); description
\* defaults to None.
TodoCreateValid(b) == "title" \in b.keys /\ b.title # None
TodoCreate(b) == [title |-> b.title[1], description |-> b.description]

\* TodoUpdate: every field Optional with default None, so a member that is
\* absent and a member that is null both read as None.
TodoUpdate(b) ==
    [title |-> IF "title" \in b.keys THEN b.title ELSE None,
     description |-> IF "description" \in b.keys THEN b.description ELSE None,
     completed |-> IF "completed" \in b.keys THEN b.completed ELSE None]

\* NoteCreate / NoteUpdate: content is a required str.
NoteValid(b) == "content" \in b.keys /\ b.content # None
NoteCreate(b) == [content |-> b.content[1]]
NoteUpdate(b) == [content |-> b.content[1]]

(* ---- responses ---- *)
\* req is the request's JSON body (None for a request without one, and for
\* update_todo's 404 and the answers of its UPDATE step, where the handler
\* holds the parsed TodoUpdate instead); body is the JSON returned.
Response(op, status, todo_id, note_id, req, body) ==
    [op |-> op, status |-> status, todo_id |-> todo_id, note_id |-> note_id,
     req |-> req, body |-> body]

TodoRow(id) == [id |-> id] @@ todos[id]
NoteRow(id) == [id |-> id] @@ notes[id]

Init ==
    /\ todos = <<>>
    /\ notes = <<>>
    /\ todos_id_seq = 1
    /\ notes_id_seq = 1
    /\ now = 0
    /\ pending = [p \in Procs |-> Idle]
    /\ last = Response("none", 0, 0, 0, None, None)

\* The database clock advances.
Tick ==
    /\ now < MaxTime
    /\ now' = now + 1
    /\ UNCHANGED <<todos, notes, todos_id_seq, notes_id_seq, pending, last>>

(* ---- todo endpoints ---- *)
get_todo ==
    \E todo_id \in TodoIds :
        /\ last' = IF todo_id \notin DOMAIN todos
                   THEN Response("get_todo", 404, todo_id, 0, None, None)
                   ELSE Response("get_todo", 200, todo_id, 0, None, TodoRow(todo_id))
        /\ UNCHANGED <<todos, notes, todos_id_seq, notes_id_seq, now, pending>>

create_todo(Bodies) ==
    \E b \in Bodies :
        IF ~TodoCreateValid(b)
        THEN /\ last' = Response("create_todo", 422, 0, 0, b, None)
             /\ UNCHANGED <<todos, notes, todos_id_seq, notes_id_seq, now, pending>>
        ELSE /\ todos_id_seq <= MaxTodos
             /\ LET todo == TodoCreate(b)
                    id == todos_id_seq
                    row == [title |-> todo.title,
                            description |-> todo.description,
                            completed |-> FALSE,
                            created_at |-> now,
                            updated_at |-> now]
                IN /\ todos' = (id :> row) @@ todos
                   /\ todos_id_seq' = todos_id_seq + 1
                   /\ last' = Response("create_todo", 201, id, 0, b, [id |-> id] @@ row)
             /\ UNCHANGED <<notes, notes_id_seq, now, pending>>

\* Mutants of BuildUpdates: the updated_at assignment appended before the emptiness test of line 175,
\* and the description assigned without its "is not None" test.
BuildUpdatesTimestampFirst(todo) ==
    LET u1 == IF todo.title # None
              THEN [updates |-> <<"title">>, params |-> <<todo.title>>, param_count |-> 2]
              ELSE [updates |-> <<>>, params |-> <<>>, param_count |-> 1]
        u2 == IF todo.description # None
              THEN [updates |-> Append(u1.updates, "description"),
                    params |-> Append(u1.params, todo.description),
                    param_count |-> u1.param_count + 1]
              ELSE u1
        u3 == IF todo.completed # None
              THEN [updates |-> Append(u2.updates, "completed"),
                    params |-> Append(u2.params, todo.completed),
                    param_count |-> u2.param_count + 1]
              ELSE u2
    IN [u3 EXCEPT !.updates = Append(@, "updated_at")]

BuildUpdatesDescriptionAlways(todo) ==
    LET u1 == IF todo.title # None
              THEN [updates |-> <<"title">>, params |-> <<todo.title>>, param_count |-> 2]
              ELSE [updates |-> <<>>, params |-> <<>>, param_count |-> 1]
        u2 == [updates |-> Append(u1.updates, "description"),
               params |-> Append(u1.params, todo.description),
               param_count |-> u1.param_count + 1]
        u3 == IF todo.completed # None
              THEN [updates |-> Append(u2.updates, "completed"),
                    params |-> Append(u2.params, todo.completed),
                    param_count |-> u2.param_count + 1]
              ELSE u2
    IN u3

\* update_todo, lines 155-173: the SET list and its positional parameters,
\* one entry for every field of the TodoUpdate that is not None.
BuildUpdates(todo) ==
    LET u1 == IF todo.title # None
              THEN [updates |-> <<"title">>, params |-> <<todo.title>>, param_count |-> 2]
              ELSE [updates |-> <<>>, params |-> <<>>, param_count |-> 1]
        u2 == IF todo.description # None
              THEN [updates |-> Append(u1.updates, "description"),
                    params |-> Append(u1.params, todo.description),
                    param_count |-> u1.param_count + 1]
              ELSE u1
        u3 == IF todo.completed # None
              THEN [updates |-> Append(u2.updates, "completed"),
                    params |-> Append(u2.params, todo.completed),
                    param_count |-> u2.param_count + 1]
              ELSE u2
    IN u3

\* The value bound to column col by "col = $i", when the SET list names col.
Assigned(q, col) == q.params[CHOOSE i \in 1..Len(q.updates) : q.updates[i] = col]
Assigns(q, col) == \E i \in 1..Len(q.updates) : q.updates[i] = col

\* Mutant of UpdatedTodo: a column the SET list does not name is set to its
\* default.
UpdatedTodoDefaults(row, q) ==
    [title |-> IF Assigns(q, "title") THEN Assigned(q, "title")[1] ELSE row.title,
     description |-> IF Assigns(q, "description") THEN Assigned(q, "description")
                     ELSE None,
     completed |-> IF Assigns(q, "completed") THEN Assigned(q, "completed")[1]
                   ELSE FALSE,
     created_at |-> row.created_at,
     updated_at |-> now]

\* UPDATE todos SET <updates>, updated_at = CURRENT_TIMESTAMP on one row.
UpdatedTodo(row, q) ==
    [title |-> IF Assigns(q, "title") THEN Assigned(q, "title")[1] ELSE row.title,
     description |-> IF Assigns(q, "description") THEN Assigned(q, "description")
                     ELSE row.description,
     completed |-> IF Assigns(q, "completed") THEN Assigned(q, "completed")[1]
                   ELSE row.completed,
     created_at |-> row.created_at,
     updated_at |-> now]

\* update_todo, lines 149-176: the existence check, the 404, the SET list and
\* the early return when the SET list is empty.
update_todo_select(Bodies) ==
    \E p \in Procs, todo_id \in TodoIds, b \in Bodies :
        /\ pending[p] = Idle
        /\ LET todo == TodoUpdate(b)
               q == BuildUpdates(todo)
           IN IF todo_id \notin DOMAIN todos
              THEN /\ last' = Response("update_todo", 404, todo_id, 0, None, None)
                   /\ UNCHANGED pending
              ELSE IF q.updates = <<>>
              THEN /\ last' = Response("update_todo", 200, todo_id, 0, b, TodoRow(todo_id))
                   /\ UNCHANGED pending
              ELSE /\ pending' = [pending EXCEPT ![p] =
                                    [op |-> "update_todo", todo_id |-> todo_id, todo |-> todo]]
                   /\ UNCHANGED last
        /\ UNCHANGED <<todos, notes, todos_id_seq, notes_id_seq, now>>

\* update_todo, lines 178-189: the UPDATE ... WHERE id = $n RETURNING *, and
\* dict(row) of what it returned; dict(None) raises TypeError, a 500.
update_todo_update ==
    \E p \in Procs :
        /\ pending[p].op = "update_todo"
        /\ LET todo_id == pending[p].todo_id
               q0 == BuildUpdates(pending[p].todo)
               q == [q0 EXCEPT !.params = Append(q0.params, Some(todo_id))]
               where == q.params[q.param_count][1]
           IN IF where \in DOMAIN todos
              THEN /\ todos' = [todos EXCEPT ![where] = UpdatedTodo(todos[where], q)]
                   /\ last' = Response("update_todo", 200, todo_id, 0, None,
                                       [id |-> where] @@ UpdatedTodo(todos[where], q))
              ELSE /\ last' = Response("update_todo", 500, todo_id, 0, None, None)
                   /\ UNCHANGED todos
        /\ pending' = [pending EXCEPT ![p] = Idle]
        /\ UNCHANGED <<notes, todos_id_seq, notes_id_seq, now>>

\* result == "DELETE 0", the test of lines 196 and 269, and its mutant, the
\* test inverted.
SomethingDeleted(result) == result # <<"DELETE", 0>>
NothingDeleted(result) == result = <<"DELETE", 0>>

\* DELETE FROM todos WHERE id = $1; notes.todo_id REFERENCES todos(id) ON
\* DELETE CASCADE removes the notes of the rows deleted.  The command tag
\* counts the todos rows.
DeleteTodos(ids) ==
    [todos |-> [i \in DOMAIN todos \ ids |-> todos[i]],
     notes |-> [n \in {m \in DOMAIN notes : notes[m].todo_id \notin ids} |-> notes[n]],
     result |-> <<"DELETE", Cardinality(DOMAIN todos \cap ids)>>]

delete_todo ==
    \E todo_id \in TodoIds :
        LET d == DeleteTodos({todo_id})
        IN /\ todos' = d.todos
           /\ notes' = d.notes
           /\ last' = IF NothingDeleted(d.result)
                      THEN Response("delete_todo", 404, todo_id, 0, None, None)
                      ELSE Response("delete_todo", 204, todo_id, 0, None, None)
           /\ UNCHANGED <<todos_id_seq, notes_id_seq, now, pending>>

(* ---- note endpoints ---- *)
\* SELECT * FROM notes WHERE todo_id = $1
NotesOf(todo_id) == {NoteRow(n) : n \in {m \in DOMAIN notes : notes[m].todo_id = todo_id}}

\* ORDER BY created_at DESC: the orders of the rows the clause allows (rows of
\* equal created_at come in either order).
OrderByCreatedAtDesc(rows) ==
    { s \in [1..Cardinality(rows) -> rows] :
        /\ \A i, j \in 1..Cardinality(rows) : i # j => s[i] # s[j]
        /\ \A i, j \in 1..Cardinality(rows) : i < j => s[i].created_at >= s[j].created_at }

\* get_notes, lines 204-208: the existence check.
get_notes_select ==
    \E p \in Procs, todo_id \in TodoIds :
        /\ pending[p] = Idle
        /\ IF todo_id \notin DOMAIN todos
           THEN /\ last' = Response("get_notes", 404, todo_id, 0, None, None)
                /\ UNCHANGED pending
           ELSE /\ pending' = [pending EXCEPT ![p] = [op |-> "get_notes", todo_id |-> todo_id]]
                /\ UNCHANGED last
        /\ UNCHANGED <<todos, notes, todos_id_seq, notes_id_seq, now>>

\* get_notes, lines 210-214: the SELECT of the notes.
get_notes_fetch ==
    \E p \in Procs :
        /\ pending[p].op = "get_notes"
        /\ \E rows \in OrderByCreatedAtDesc(NotesOf(pending[p].todo_id)) :
              last' = Response("get_notes", 200, pending[p].todo_id, 0, None, rows)
        /\ pending' = [pending EXCEPT ![p] = Idle]
        /\ UNCHANGED <<todos, notes, todos_id_seq, notes_id_seq, now>>

\* create_note, lines 217-223: the body's validation and the existence check.
create_note_select(Bodies) ==
    \E p \in Procs, todo_id \in TodoIds, b \in Bodies :
        /\ pending[p] = Idle
        /\ IF ~NoteValid(b)
           THEN /\ last' = Response("create_note", 422, todo_id, 0, b, None)
                /\ UNCHANGED pending
           ELSE IF todo_id \notin DOMAIN todos
           THEN /\ last' = Response("create_note", 404, todo_id, 0, b, None)
                /\ UNCHANGED pending
           ELSE /\ notes_id_seq
                     + Cardinality({r \in Procs : pending[r].op = "create_note"}) <= MaxNotes
                /\ pending' = [pending EXCEPT ![p] =
                                 [op |-> "create_note", todo_id |-> todo_id, body |-> b]]
                /\ UNCHANGED last
        /\ UNCHANGED <<todos, notes, todos_id_seq, notes_id_seq, now>>

\* Mutant of InsertNote: the column without its REFERENCES todos(id).
InsertNoteUnchecked(todo_id, content) ==
    [ok |-> TRUE,
     notes |-> (notes_id_seq :> [todo_id |-> todo_id, content |-> content,
                                 created_at |-> now]) @@ notes]

\* INSERT INTO notes (todo_id, content): the id is drawn from the sequence,
\* then todo_id REFERENCES todos(id) is checked; a violation aborts the
\* statement (the sequence keeps its advance).
InsertNote(todo_id, content) ==
    IF todo_id \in DOMAIN todos
    THEN [ok |-> TRUE,
          notes |-> (notes_id_seq :> [todo_id |-> todo_id, content |-> content,
                                      created_at |-> now]) @@ notes]
    ELSE [ok |-> FALSE, notes |-> notes]

\* create_note, lines 225-234: the INSERT; ForeignKeyViolationError is not
\* caught, a 500.
create_note_insert ==
    \E p \in Procs :
        /\ pending[p].op = "create_note"
        /\ LET todo_id == pending[p].todo_id
               b == pending[p].body
               ins == InsertNote(todo_id, NoteCreate(b).content)
           IN /\ notes' = ins.notes
              /\ notes_id_seq' = notes_id_seq + 1
              /\ last' = IF ins.ok
                         THEN Response("create_note", 201, todo_id, notes_id_seq, b,
                                       [id |-> notes_id_seq] @@ ins.notes[notes_id_seq])
                         ELSE Response("create_note", 500, todo_id, 0, b, None)
        /\ pending' = [pending EXCEPT ![p] = Idle]
        /\ UNCHANGED <<todos, todos_id_seq, now>>

\* Mutant of NotesMatching: WHERE id = $note_id, without the todo_id.
NotesMatchingId(note_id, todo_id) == {n \in DOMAIN notes : n = note_id}

\* The rows of UPDATE/DELETE ... FROM notes WHERE id = $note_id AND todo_id = $todo_id
NotesMatching(note_id, todo_id) ==
    {n \in DOMAIN notes : n = note_id /\ notes[n].todo_id = todo_id}

update_note(Bodies) ==
    \E todo_id \in TodoIds, note_id \in NoteIds, b \in Bodies :
        IF ~NoteValid(b)
        THEN /\ last' = Response("update_note", 422, todo_id, note_id, b, None)
             /\ UNCHANGED <<todos, notes, todos_id_seq, notes_id_seq, now, pending>>
        ELSE LET hit == NotesMatching(note_id, todo_id)
                 upd == [n \in DOMAIN notes |->
                           IF n \in hit THEN [notes[n] EXCEPT !.content = NoteUpdate(b).content]
                           ELSE notes[n]]
             IN /\ notes' = upd
                /\ last' = IF hit = {}
                           THEN Response("update_note", 404, todo_id, note_id, b, None)
                           ELSE Response("update_note", 200, todo_id, note_id, b,
                                         [id |-> note_id] @@ upd[note_id])
                /\ UNCHANGED <<todos, todos_id_seq, notes_id_seq, now, pending>>

delete_note ==
    \E todo_id \in TodoIds, note_id \in NoteIds :
        LET hit == NotesMatching(note_id, todo_id)
            result == <<"DELETE", Cardinality(hit)>>
        IN /\ notes' = [n \in DOMAIN notes \ hit |-> notes[n]]
           /\ last' = IF NothingDeleted(result)
                      THEN Response("delete_note", 404, todo_id, note_id, None, None)
                      ELSE Response("delete_note", 204, todo_id, note_id, None, None)
           /\ UNCHANGED <<todos, todos_id_seq, notes_id_seq, now, pending>>

(* ---- statistics ---- *)
\* SQL aggregates over the values one expression takes on the rows, given as
\* a function row id -> value: COUNT(*) is the number of rows, SUM is NULL
\* when there is no row.
RECURSIVE SumOf(_)
SumOf(f) ==
    IF DOMAIN f = {} THEN 0
    ELSE LET i == CHOOSE x \in DOMAIN f : TRUE
         IN f[i] + SumOf([j \in DOMAIN f \ {i} |-> f[j]])
SqlSum(f) == IF DOMAIN f = {} THEN None ELSE Some(SumOf(f))
SqlCount(f) == Some(Cardinality(DOMAIN f))

get_stats ==
    LET stats == [total_todos |-> SqlCount(todos),
                  completed_todos |->
                      SqlSum([i \in DOMAIN todos |-> IF todos[i].completed THEN 1 ELSE 0]),
                  pending_todos |->
                      SqlSum([i \in DOMAIN todos |-> IF ~todos[i].completed THEN 1 ELSE 0]),
                  total_notes |-> SqlCount(notes)]
    IN /\ last' = Response("get_stats", 200, 0, 0, None, stats)
       /\ UNCHANGED <<todos, notes, todos_id_seq, notes_id_seq, now, pending>>

Next ==
    \/ Tick
    \/ get_todo
    \/ create_todo(TodoCreateBodies)
    \/ update_todo_select(TodoUpdateBodies)
    \/ update_todo_update
    \/ delete_todo
    \/ get_notes_select
    \/ get_notes_fetch
    \/ create_note_select(NoteBodies)
    \/ create_note_insert
    \/ update_note(NoteBodies)
    \/ delete_note
    \/ get_stats

Spec == Init /\ [][Next]_vars

(* ---- restrictions of Spec to part of the endpoints and request bodies ---- *)
\* The todo endpoints alone.
NextTodos ==
    \/ Tick
    \/ get_todo
    \/ create_todo(TodoCreateBodies)
    \/ update_todo_select(TodoUpdateBodies)
    \/ update_todo_update
    \/ delete_todo

SpecTodos == Init /\ [][NextTodos]_vars

\* Every endpoint, with the clock standing still and todos that differ in
\* nothing but completed.
PlainTodoCreateBodies == {b \in TodoCreateBodies : b.keys = {"title"} /\ b.title = Some("a")}
CompletedOnlyBodies == {b \in TodoUpdateBodies : b.keys = {"completed"} /\ b.completed # None}

NextNotes ==
    \/ get_todo
    \/ create_todo(PlainTodoCreateBodies)
    \/ update_todo_select(CompletedOnlyBodies)
    \/ update_todo_update
    \/ delete_todo
    \/ get_notes_select
    \/ get_notes_fetch
    \/ create_note_select(NoteBodies)
    \/ create_note_insert
    \/ update_note(NoteBodies)
    \/ delete_note
    \/ get_stats

SpecNotes == Init /\ [][NextNotes]_vars

\* The todo endpoints that write, and the creation of notes, with the clock
\* standing still.
PlainNoteBodies == {b \in NoteBodies : b.content = Some("c")}

NextFrame ==
    \/ create_todo(TodoCreateBodies)
    \/ update_todo_select(TodoUpdateBodies)
    \/ update_todo_update
    \/ delete_todo
    \/ create_note_select(PlainNoteBodies)
    \/ create_note_insert

SpecFrame == Init /\ [][NextFrame]_vars

(***************************************************************************)
(* Properties                                                              *)
(***************************************************************************)
\* The steps in which a request is answered (last' is its response): every
\* step but a tick of the clock and a handler's move from its first statement
\* to its second.
Responds ==
    /\ now' = now
    /\ \A p \in Procs : pending[p] = Idle => pending'[p] = Idle
Answers(op) == Responds /\ last'.op = op

StoreUnchanged == todos' = todos /\ notes' = notes

\* C1: an update_todo request ends in 404 or in 200, never in another outcome,
\* whatever delete_todo requests run between its existence check and its UPDATE.
C1_UpdateEndsIn404Or200 ==
    last.op = "update_todo" => last.status \in {200, 404}

\* C2: in every reachable state every note's todo_id is the id of a todo that
\* exists.
C2_NoOrphanNotes ==
    \A n \in DOMAIN notes : notes[n].todo_id \in DOMAIN todos

\* A create_note whose todo was deleted after the existence check was refused
\* by the foreign key, while the store still holds a todo.
C2_Witness ==
    /\ last.op = "create_note"
    /\ last.status = 500
    /\ last.todo_id \notin DOMAIN todos
    /\ DOMAIN todos # {}

\* C3: a note of todo A is not listed by get_notes(B), and update_note(B, n, c)
\* and delete_note(B, n) answer 404 and leave the notes as they were, for every
\* B other than A.
C3_Step ==
    \A n \in DOMAIN notes :
        last'.todo_id # notes[n].todo_id =>
            /\ (Answers("get_notes") /\ last'.status = 200)
                  => \A i \in 1..Len(last'.body) : last'.body[i].id # n
            /\ (Answers("update_note") /\ last'.note_id = n /\ NoteValid(last'.req))
                  => last'.status = 404 /\ notes' = notes
            /\ (Answers("delete_note") /\ last'.note_id = n)
                  => last'.status = 404 /\ notes' = notes
C3_NoteScopedToItsTodo == [][C3_Step]_vars

\* update_note addressed a note that exists through another todo that exists
\* too, and was answered 404.
C3_Witness ==
    /\ last.op = "update_note"
    /\ last.status = 404
    /\ last.note_id \in DOMAIN notes
    /\ last.todo_id \in DOMAIN todos
    /\ notes[last.note_id].todo_id # last.todo_id
    /\ notes[last.note_id].content # last.req.content[1]

\* What an update_todo of todo id with the TodoUpdate todo may change in a step.
C4_Frame(id, todo) ==
    /\ id \in DOMAIN todos
    /\ DOMAIN todos' = DOMAIN todos
    /\ \A i \in DOMAIN todos : i # id => todos'[i] = todos[i]
    /\ notes' = notes
    /\ todos'[id].created_at = todos[id].created_at
    /\ todo.title = None => todos'[id].title = todos[id].title
    /\ todo.description = None => todos'[id].description = todos[id].description
    /\ todo.completed = None => todos'[id].completed = todos[id].completed

\* C4: a successful update_todo changes, on its todo, only the fields the
\* request supplies and updated_at; id, created_at, the fields not supplied,
\* every other todo and every note stay as they were.
C4_Step ==
    (Answers("update_todo") /\ last'.status = 200) =>
        \* answered by the first step (req is recorded) or by the second
        IF last'.req # None
        THEN C4_Frame(last'.todo_id, TodoUpdate(last'.req))
        ELSE \E p \in Procs :
                /\ pending[p].op = "update_todo"
                /\ pending'[p] = Idle
                /\ pending[p].todo_id = last'.todo_id
                /\ C4_Frame(pending[p].todo_id, pending[p].todo)
C4_UpdateTouchesSuppliedFieldsOnly == [][C4_Step]_vars

\* update_todo's UPDATE set completed on a todo that has a description, while a
\* second todo and a note exist.
C4_Witness ==
    /\ last.op = "update_todo"
    /\ last.status = 200
    /\ last.req = None
    /\ last.body.completed
    /\ last.body.description # None
    /\ Cardinality(DOMAIN todos) = 2
    /\ DOMAIN notes # {}

NoField == [title |-> None, description |-> None, completed |-> None]
NoEmptyUpdatePending ==
    \A p \in Procs : pending[p].op = "update_todo" => pending[p].todo # NoField

\* C5: update_todo of a todo that exists, with no field in the body, answers
\* 200 with the todo's current row and changes nothing, updated_at included;
\* such a request never reaches the UPDATE.
C5_Step ==
    /\ (Answers("update_todo") /\ last'.req # None /\ last'.req.keys = {}) =>
          /\ last'.status = 200
          /\ last'.todo_id \in DOMAIN todos
          /\ last'.body = TodoRow(last'.todo_id)
          /\ StoreUnchanged
    /\ NoEmptyUpdatePending'
C5_EmptyUpdateIsNoOp == [][C5_Step]_vars

\* An empty update was answered after the clock moved past the todo's
\* updated_at, and the todo still has that updated_at.
C5_Witness ==
    /\ last.op = "update_todo"
    /\ last.status = 200
    /\ last.req # None
    /\ last.req.keys = {}
    /\ last.todo_id \in DOMAIN todos
    /\ last.body = TodoRow(last.todo_id)
    /\ last.body.updated_at < now

\* C6: no todo has an empty title and no note an empty content: create_todo
\* with an empty title is answered 422, as are create_note and update_note with
\* an empty content.
C6_EmptyIsRejected ==
    /\ \A i \in DOMAIN todos : todos[i].title # ""
    /\ \A n \in DOMAIN notes : notes[n].content # ""
    /\ (last.op = "create_todo" /\ last.req.title = Some("")) => last.status = 422

\* C7: a request answered 404 leaves the todos and the notes as they were.
C7_Step == (Responds /\ last'.status = 404) => StoreUnchanged
C7_NotFoundChangesNothing == [][C7_Step]_vars

\* delete_todo of an id that is not there was answered 404 while the store
\* holds a todo and a note.
C7_Witness ==
    /\ last.op = "delete_todo"
    /\ last.status = 404
    /\ DOMAIN todos # {}
    /\ DOMAIN notes # {}

\* C8: get_stats returns the number of todos, of completed todos, of pending
\* todos and of notes, each an integer (0 for an empty store).
C8_Step ==
    Answers("get_stats") =>
        last'.body =
            [total_todos |-> Some(Cardinality(DOMAIN todos)),
             completed_todos |-> Some(Cardinality({i \in DOMAIN todos : todos[i].completed})),
             pending_todos |-> Some(Cardinality({i \in DOMAIN todos : ~todos[i].completed})),
             total_notes |-> Some(Cardinality(DOMAIN notes))]
C8_StatsAreCounts == [][C8_Step]_vars

\* C9: a successful update_todo that supplies at least one field strictly
\* increases the todo's updated_at; a created todo has created_at = updated_at;
\* every todo has updated_at >= created_at.
C9_Step ==
    /\ (/\ Answers("update_todo")
        /\ last'.status = 200
        /\ (last'.req = None \/ last'.req.keys # {}))
       => /\ last'.todo_id \in DOMAIN todos
          /\ todos'[last'.todo_id].updated_at > todos[last'.todo_id].updated_at
    /\ (Answers("create_todo") /\ last'.status = 201)
       => last'.body.created_at = last'.body.updated_at
    /\ \A i \in DOMAIN todos' : todos'[i].updated_at >= todos'[i].created_at
C9_UpdatedAtIncreases == [][C9_Step]_vars

\* C10: a field given as null is a field not given: no step turns a todo's
\* description from a value into null, and a request whose fields are all null
\* is answered 200 by the no-op path, with nothing changed.
C10_Step ==
    /\ \A i \in DOMAIN todos \cap DOMAIN todos' :
          todos[i].description # None => todos'[i].description # None
    /\ (/\ Answers("update_todo")
        /\ last'.req # None
        /\ last'.req.keys # {}
        /\ TodoUpdate(last'.req) = NoField)
       => /\ last'.status = 200
          /\ last'.body = TodoRow(last'.todo_id)
          /\ StoreUnchanged
    /\ NoEmptyUpdatePending'
C10_NullIsNotGiven == [][C10_Step]_vars

\* A request that gave description as null was answered with the todo's
\* description still set, and an updated_at older than the clock.
C10_Witness ==
    /\ last.op = "update_todo"
    /\ last.status = 200
    /\ last.req # None
    /\ "description" \in last.req.keys
    /\ last.req.description = None
    /\ last.body.description # None
    /\ last.body.updated_at < now
====
